---- MODULE Spec2Model ----
(***************************************************************************)
(* A model of the indenter crate (src/src/lib.rs): the Indented writer,    *)
(* its Format strategies and the write_str line-splitting loop.            *)
(*                                                                         *)
(* Text is a sequence of one-character strings.  The state holds the       *)
(* writer's fields (started, format), the content of the wrapped sink      *)
(* (inner) and history variables that record what the writer was asked to  *)
(* do (chunks, results) and every sub-write it made to the sink (trace).   *)
(***************************************************************************)
EXTENDS Integers, Sequences, FiniteSets

VARIABLES
    started,    \* Indented::started
    format,     \* Indented::format
    inner,      \* content accepted so far by the sink behind Indented::inner
    trace,      \* history: every step that wrote to the sink, in order
    chunks,     \* history: the argument of every write_str call, in order
    results,    \* history: the result of every write_str call, in order
    reformats   \* history: number of with_format calls made after the first write_str call

vars == <<started, format, inner, trace, chunks, results, reformats>>

(***************************************************************************)
(* Bounds of the model.                                                    *)
(***************************************************************************)
MaxCalls == 3
MaxInputLen == 3
MaxFailures == 1

Alphabet == {"a", " ", "\n"}

NumberedIndices == {2, 10000}

(***************************************************************************)
(* Text helpers.                                                           *)
(***************************************************************************)
\* The characters with the Unicode White_Space property that a string of this
\* module can hold: U+0009..U+000D, U+0020, U+0085, U+00A0, U+1680.  (The
\* others, U+2000..U+200A, U+2028, U+2029, U+202F, U+205F and U+3000, cannot
\* be written in a string here; no chunk over Alphabet holds them.)
WhiteSpace == {"\t", "\n", "\f", "\r", " ", "", "", " ", " "}

\* char::is_whitespace
IsWhitespace(c) == c \in WhiteSpace

\* the concatenation of a sequence of texts
RECURSIVE Concat(_)
Concat(ss) == IF ss = <<>> THEN <<>> ELSE Head(ss) \o Concat(Tail(ss))

Spaces(n) == [i \in 1..n |-> " "]

\* Mutant of trim_start: only one leading whitespace character is removed.
trim_start_one(line) ==
    IF line # <<>> /\ IsWhitespace(Head(line)) THEN Tail(line) ELSE line

\* str::trim_start
RECURSIVE trim_start(_)
trim_start(line) ==
    IF line # <<>> /\ IsWhitespace(Head(line))
    THEN trim_start(Tail(line))
    ELSE line

\* str::split('\n'), collected: a text with k newlines gives k + 1 pieces
RECURSIVE SplitFrom(_, _)
SplitFrom(s, cur) ==
    IF s = <<>> THEN <<cur>>
    ELSE IF Head(s) = "\n" THEN <<cur>> \o SplitFrom(Tail(s), <<>>)
    ELSE SplitFrom(Tail(s), Append(cur, Head(s)))

Split(s) == SplitFrom(s, <<>>)

\* Display of a usize: its decimal digits
DigitChar(d) == <<"0", "1", "2", "3", "4", "5", "6", "7", "8", "9">>[d + 1]

RECURSIVE Digits(_)
Digits(n) ==
    IF n < 10 THEN <<DigitChar(n)>>
    ELSE Append(Digits(n \div 10), DigitChar(n % 10))

\* the field width of "{: >4}: "
FieldWidth == 4

\* format!("{: >4}", ind): right-aligned, space-filled to at least 4 columns
PadIndex(ind) ==
    LET d == Digits(ind)
    IN  IF Len(d) >= FieldWidth THEN d ELSE Spaces(FieldWidth - Len(d)) \o d

(***************************************************************************)
(* Format and its prefixes.                                                *)
(***************************************************************************)
Uniform(indentation) == [tag |-> "Uniform", indentation |-> indentation, ind |-> 0]
Numbered(ind) == [tag |-> "Numbered", indentation |-> <<>>, ind |-> ind]
\* Format::Custom with the inserter of tests::nice_api, which closes over n
Custom(n) == [tag |-> "Custom", indentation |-> <<>>, ind |-> n]

\* write!(f, "{: >4}: ", ind) as the write_str calls it makes on f, in order:
\* one per fill character (Formatter padding goes through write_char), one
\* for the digits, one for the literal ": "
IndexWrites(ind) ==
    LET d == Digits(ind)
        pad == IF Len(d) >= FieldWidth THEN 0 ELSE FieldWidth - Len(d)
    IN  [i \in 1..pad |-> <<" ">>] \o <<d, <<":", " ">>>>

\* the closure of tests::nice_api: the write_str calls it makes for line_no
NiceInserter(n, line_no) ==
    IF line_no = 0 THEN IndexWrites(n) ELSE <<Spaces(7)>>

\* the write_str calls Format::insert_indentation makes on f for `line`
PrefixWrites(fmt, line) ==
    CASE fmt.tag = "Uniform" -> <<fmt.indentation>>
      [] fmt.tag = "Numbered" ->
            IF line = 0 THEN IndexWrites(fmt.ind) ELSE <<Spaces(6)>>
      [] fmt.tag = "Custom" -> NiceInserter(fmt.ind, line)

\* the text Format::insert_indentation writes for `line` when f accepts it all
PrefixText(fmt, line) == Concat(PrefixWrites(fmt, line))

\* indented(): the default format
DefaultFormat == Uniform(Spaces(4))

Formats ==
    {DefaultFormat, Uniform(Spaces(2))}
    \cup {Numbered(i) : i \in NumberedIndices}
    \cup {Custom(1)}

(***************************************************************************)
(* The sink and the write_str loop.  A write_str call is computed on a     *)
(* record w that carries the writer's fields through the loop:             *)
(*   started, format, inner, trace  as the variables of the same name      *)
(*   call    the number of this write_str call                             *)
(*   n       the number of write_str calls made on the sink so far in      *)
(*           this call of Indented::write_str                              *)
(*   failAt  the one of them that the sink rejects (0: none)               *)
(*   res     the fmt::Result so far                                        *)
(* An entry of trace is one step of the loop that writes to the sink: the  *)
(* newline, the prefix or the content of a piece, with                     *)
(*   text     what the step writes when the sink accepts all of it         *)
(*   written  what the sink accepted of it                                 *)
(*   ok       whether the step returned Ok                                 *)
(***************************************************************************)

\* One write_str call on the sink: the sink either accepts the whole text or
\* rejects it and reports fmt::Error.
sink_call(w, text) ==
    LET ok == (w.n + 1 # w.failAt)
    IN  [w EXCEPT !.n = w.n + 1,
                  !.inner = IF ok THEN w.inner \o text ELSE w.inner,
                  !.res = IF ok THEN "Ok" ELSE "Err"]

\* The write_str calls of one write!: fmt::write returns at the first Err.
RECURSIVE sink_calls(_, _)
sink_calls(w, texts) ==
    IF texts = <<>> \/ w.res = "Err" THEN w
    ELSE sink_calls(sink_call(w, Head(texts)), Tail(texts))

\* One step that writes to the sink, made of the write_str calls `texts`.
\* For Format::Custom a prefix step that is not ok is the callback
\* returning Err.
sink_writes(w, kind, ind, texts) ==
    LET w1 == sink_calls(w, texts)
        entry == [call |-> w.call, kind |-> kind, ind |-> ind,
                  text |-> Concat(texts),
                  written |-> SubSeq(w1.inner, Len(w.inner) + 1, Len(w1.inner)),
                  ok |-> w1.res = "Ok", fmt |-> w.format.tag]
    IN  [w1 EXCEPT !.trace = Append(w.trace, entry)]

\* A step of one write_str call on the sink: write_char('\n'), or
\* write_fmt(format_args!("{}", line))
sink_write(w, kind, ind, text) == sink_writes(w, kind, ind, <<text>>)

\* Mutant of Try: the result of a failed write is dropped and the call goes on.
Try_ignoring_errors(w, kind, ind, text) ==
    sink_write(w, kind, ind, text)

\* The `?` after each sink write: nothing more runs once a write failed.
Try(w, kind, ind, text) ==
    IF w.res = "Err" THEN w ELSE sink_write(w, kind, ind, text)

\* Mutant of insert_indentation: the Result of the inserter is discarded.
insert_indentation_unchecked(w, line) ==
    IF w.res = "Err" THEN w
    ELSE [sink_writes(w, "prefix", line, PrefixWrites(w.format, line))
            EXCEPT !.res = w.res]

\* Mutant of insert_indentation: lines are counted from 1.
insert_indentation_from_one(w, line) ==
    IF w.res = "Err" THEN w
    ELSE sink_writes(w, "prefix", line + 1, PrefixWrites(w.format, line + 1))

\* Format::insert_indentation(line, f), under `?`: it is not reached after
\* a failed write, and runs the write_str calls of its write! otherwise
insert_indentation(w, line) ==
    IF w.res = "Err" THEN w
    ELSE sink_writes(w, "prefix", line, PrefixWrites(w.format, line))

\* Mutant of write_piece: the first line is not trimmed.
write_piece_no_trim(w, ind, line) ==
    IF ~w.started THEN
        IF trim_start(line) = <<>> THEN w
        ELSE Try(insert_indentation([w EXCEPT !.started = TRUE], ind),
                 "content", ind, line)
    ELSE IF ind > 0 THEN
        Try(insert_indentation(Try(w, "newline", ind, <<"\n">>), ind),
            "content", ind, line)
    ELSE Try(w, "content", ind, line)

\* Mutant of write_piece: an empty first line is rendered instead of skipped.
write_piece_no_skip(w, ind, line) ==
    IF ~w.started THEN
        Try(insert_indentation([w EXCEPT !.started = TRUE], ind),
            "content", ind, trim_start(line))
    ELSE IF ind > 0 THEN
        Try(insert_indentation(Try(w, "newline", ind, <<"\n">>), ind),
            "content", ind, line)
    ELSE Try(w, "content", ind, line)

\* Mutant of write_piece: every piece of a started writer opens a new line.
write_piece_always_newline(w, ind, line) ==
    IF ~w.started THEN
        LET trimmed == trim_start(line)
        IN  IF trimmed = <<>> THEN w
            ELSE Try(insert_indentation([w EXCEPT !.started = TRUE], ind),
                     "content", ind, trimmed)
    ELSE Try(insert_indentation(Try(w, "newline", ind, <<"\n">>), ind),
             "content", ind, line)

\* Mutant of write_piece: the newline that opens a new line is not written.
write_piece_no_newline(w, ind, line) ==
    IF ~w.started THEN
        LET trimmed == trim_start(line)
        IN  IF trimmed = <<>> THEN w
            ELSE Try(insert_indentation([w EXCEPT !.started = TRUE], ind),
                     "content", ind, trimmed)
    ELSE IF ind > 0 THEN
        Try(insert_indentation(w, ind), "content", ind, line)
    ELSE Try(w, "content", ind, line)

\* Mutant of write_piece: every piece is trimmed, also after the start.
write_piece_trim_always(w, ind, line) ==
    IF ~w.started THEN
        LET trimmed == trim_start(line)
        IN  IF trimmed = <<>> THEN w
            ELSE Try(insert_indentation([w EXCEPT !.started = TRUE], ind),
                     "content", ind, trimmed)
    ELSE IF ind > 0 THEN
        Try(insert_indentation(Try(w, "newline", ind, <<"\n">>), ind),
            "content", ind, trim_start(line))
    ELSE Try(w, "content", ind, trim_start(line))

\* Mutant of write_piece: an empty line is skipped after the start as well.
write_piece_skip_blank(w, ind, line) ==
    IF trim_start(line) = <<>> THEN w
    ELSE IF ~w.started THEN
        Try(insert_indentation([w EXCEPT !.started = TRUE], ind),
            "content", ind, trim_start(line))
    ELSE IF ind > 0 THEN
        Try(insert_indentation(Try(w, "newline", ind, <<"\n">>), ind),
            "content", ind, line)
    ELSE Try(w, "content", ind, line)

\* The body of the for loop of write_str, for the piece `line` at index `ind`
write_piece(w, ind, line) ==
    IF ~w.started THEN
        LET trimmed == trim_start(line)
        IN  IF trimmed = <<>> THEN w
            ELSE Try(insert_indentation([w EXCEPT !.started = TRUE], ind),
                     "content", ind, trimmed)
    ELSE IF ind > 0 THEN
        Try(insert_indentation(Try(w, "newline", ind, <<"\n">>), ind),
            "content", ind, line)
    ELSE Try(w, "content", ind, line)

\* for (ind, line) in s.split('\n').enumerate(), leaving at the first Err
RECURSIVE write_loop(_, _, _)
write_loop(w, pieces, ind) ==
    IF pieces = <<>> \/ w.res = "Err" THEN w
    ELSE write_loop(write_piece(w, ind, Head(pieces)), Tail(pieces), ind + 1)

\* the writer record a write_str call starts from
Writer(st, fmt, snk, tr, call, failAt) ==
    [started |-> st, format |-> fmt, inner |-> snk, trace |-> tr,
     call |-> call, n |-> 0, failAt |-> failAt, res |-> "Ok"]

\* Indented::write_str(s) on a writer in state (st, fmt) over a sink holding snk
write_str_result(st, fmt, snk, tr, call, failAt, s) ==
    write_loop(Writer(st, fmt, snk, tr, call, failAt), Split(s), 0)

(***************************************************************************)
(* The state machine.                                                      *)
(***************************************************************************)
Texts(n) == UNION {[1..k -> Alphabet] : k \in 0..n}

NumFailed == Cardinality({i \in 1..Len(results) : results[i] = "Err"})

\* indented(f): a fresh writer with the default format over an empty sink
Init ==
    /\ started = FALSE
    /\ format = DefaultFormat
    /\ inner = <<>>
    /\ trace = <<>>
    /\ chunks = <<>>
    /\ results = <<>>
    /\ reformats = 0

\* Mutant of with_format: the writer is built anew, with started = false.
with_format_resetting(fmt) ==
    /\ fmt # format
    /\ chunks # <<>> => Len(chunks) + reformats < MaxCalls
    /\ format' = fmt
    /\ started' = FALSE
    /\ reformats' = IF chunks = <<>> THEN reformats ELSE reformats + 1
    /\ UNCHANGED <<inner, trace, chunks, results>>

\* Indented::with_format(format) (and Indented::ind, its Numbered case).
\* Before the first write_str call it is part of constructing the writer;
\* afterwards it counts as a call on the writer.
with_format(fmt) ==
    /\ fmt # format
    /\ chunks # <<>> => Len(chunks) + reformats < MaxCalls
    /\ format' = fmt
    /\ reformats' = IF chunks = <<>> THEN reformats ELSE reformats + 1
    /\ UNCHANGED <<started, inner, trace, chunks, results>>

\* Indented::write_str(s); the sink rejects the failAt-th write of this call
write_str(s, failAt) ==
    /\ Len(chunks) + reformats < MaxCalls
    /\ failAt # 0 => NumFailed < MaxFailures
    /\ \E w \in {write_str_result(started, format, inner, trace,
                                   Len(chunks) + 1, failAt, s)} :
           /\ started' = w.started
           /\ inner' = w.inner
           /\ trace' = w.trace
           /\ results' = Append(results, w.res)
    /\ chunks' = Append(chunks, s)
    /\ UNCHANGED <<format, reformats>>

\* the number of write_str calls that write_str(s) makes on the sink from the
\* current state when none is rejected: rejecting a later one changes nothing
SinkCalls(s) ==
    write_str_result(started, format, inner, trace, Len(chunks) + 1, 0, s).n

Next ==
    \/ \E fmt \in Formats : with_format(fmt)
    \/ \E s \in Texts(MaxInputLen - Len(Concat(chunks))) :
            \E failAt \in 0..SinkCalls(s) : write_str(s, failAt)

Spec == Init /\ [][Next]_vars

(***************************************************************************)
(* Vocabulary of the properties.                                           *)
(***************************************************************************)
Input == Concat(chunks)

AllOk == \A i \in 1..Len(results) : results[i] = "Ok"

\* the calls of Format::insert_indentation so far, in order
Prefixes == SelectSeq(trace, LAMBDA e : e.kind = "prefix")

\* the format was chosen when the writer was built and never replaced
FormatFixed == reformats = 0

IsBlank(c) == c = "\n" \/ IsWhitespace(c)

WhitespaceOnly(s) == \A k \in 1..Len(s) : IsBlank(s[k])

HasText(s) == \E k \in 1..Len(s) : ~IsBlank(s[k])

\* s from its first character that is neither whitespace nor a newline
RECURSIVE FromFirstText(_)
FromFirstText(s) ==
    IF s = <<>> \/ ~IsBlank(Head(s)) THEN s ELSE FromFirstText(Tail(s))

RECURSIVE Count(_, _)
Count(c, s) ==
    IF s = <<>> THEN 0
    ELSE (IF Head(s) = c THEN 1 ELSE 0) + Count(c, Tail(s))

StartsWith(s, p) == Len(p) <= Len(s) /\ SubSeq(s, 1, Len(p)) = p

\* t with a copy of m after each of its newlines
RECURSIVE IndentAfterNewlines(_, _)
IndentAfterNewlines(t, m) ==
    IF t = <<>> THEN <<>>
    ELSE IF Head(t) = "\n" THEN <<"\n">> \o m \o IndentAfterNewlines(Tail(t), m)
    ELSE <<Head(t)>> \o IndentAfterNewlines(Tail(t), m)

\* the sink after one write_str(t) to a fresh writer with format fmt
SingleWrite(fmt, t) == write_str_result(FALSE, fmt, <<>>, <<>>, 1, 0, t).inner

(***************************************************************************)
(* C1.  Chunk-splitting invariance: writing the non-empty sub-chunks of a  *)
(* text one call each to a fresh writer leaves the sink with the content   *)
(* that a single write of the whole text to a fresh writer with the same   *)
(* strategy leaves, for every strategy.  (Does not hold of the code: the   *)
(* line number handed to the strategy restarts with every call.)           *)
(***************************************************************************)
C1_SplitInvariance ==
    (FormatFixed /\ AllOk /\ \A i \in 1..Len(chunks) : chunks[i] # <<>>)
        => inner = SingleWrite(format, Input)

(***************************************************************************)
(* C2.  Uniform output formula.  As claimed: one write of a text T whose   *)
(* first line has a non-whitespace character, to a fresh Uniform writer    *)
(* with marker M, leaves M followed by T with M after every newline.       *)
(***************************************************************************)
SingleUniformWrite ==
    /\ FormatFixed
    /\ format.tag = "Uniform"
    /\ Len(chunks) = 1
    /\ results = <<"Ok">>
    /\ HasText(Split(chunks[1])[1])

C2_UniformFormulaAsClaimed ==
    SingleUniformWrite
        => inner = format.indentation
                     \o IndentAfterNewlines(chunks[1], format.indentation)

\* C2 as amended: the sink holds M followed by T without the leading
\* whitespace of its first line, with M after every newline.
C2_UniformFormula ==
    SingleUniformWrite
        => inner = format.indentation
                     \o IndentAfterNewlines(trim_start(chunks[1]), format.indentation)

C2_Witness ==
    /\ SingleUniformWrite
    /\ Head(chunks[1]) = " "
    /\ Count("\n", chunks[1]) > 0

(***************************************************************************)
(* C3.  Numbered prefixes: on a fresh Numbered(index) writer the first     *)
(* prefix written is the index right-aligned in 4 columns followed by      *)
(* ": ", and every later prefix is blank.  (Does not hold of the code: a   *)
(* first line that is not the first piece of its call gets the blank       *)
(* prefix.)                                                                *)
(***************************************************************************)
C3_NumberedPrefixes ==
    (FormatFixed /\ format.tag = "Numbered" /\ Prefixes # <<>>)
        => /\ Prefixes[1].text = PadIndex(format.ind) \o <<":", " ">>
           /\ \A j \in 2..Len(Prefixes) :
                \A k \in 1..Len(Prefixes[j].text) : Prefixes[j].text[k] = " "

(***************************************************************************)
(* C4.  Numbered alignment width: for every index, the blank prefix of     *)
(* continuation lines is as long as the first-line prefix.  (Does not      *)
(* hold of the code for an index of five digits or more.)                  *)
(***************************************************************************)
C4_NumberedAlignment ==
    (FormatFixed /\ format.tag = "Numbered")
        => \A i, j \in 1..Len(Prefixes) :
                (Prefixes[i].ind = 0 /\ Prefixes[j].ind > 0)
                    => Len(Prefixes[i].text) = Len(Prefixes[j].text)

(***************************************************************************)
(* C5.  Pre-start absorption spans calls: after any sequence of write      *)
(* calls whose chunks hold only whitespace and newlines, nothing was       *)
(* written to the sink, the strategy was not invoked, every call returned  *)
(* Ok and started is still false.                                          *)
(***************************************************************************)
OnlyBlankChunks == \A i \in 1..Len(chunks) : WhitespaceOnly(chunks[i])

C5_Absorption ==
    OnlyBlankChunks
        => /\ trace = <<>>
           /\ inner = <<>>
           /\ AllOk
           /\ ~started

C5_Witness ==
    /\ OnlyBlankChunks
    /\ Len(chunks) >= 3
    /\ chunks[1] # <<>>
    /\ chunks[Len(chunks)] # <<>>
    /\ \E i \in 1..Len(chunks) : chunks[i] = <<>>
    /\ Count(" ", Input) > 0
    /\ Count("\n", Input) > 0

(***************************************************************************)
(* C6.  Output starts at real text: when whitespace-only lines precede     *)
(* the first text and every sink write succeeded, a non-empty sink begins  *)
(* with one prefix directly followed by the first non-whitespace           *)
(* character of the input; the first two writes to the sink are that       *)
(* prefix and the content that starts with that character.                 *)
(***************************************************************************)
C6_StartsAtText ==
    (AllOk /\ inner # <<>>)
        => /\ HasText(Input)
           /\ Len(trace) >= 2
           /\ trace[1].kind = "prefix"
           /\ trace[1].text \in
                {PrefixText(f, k) : f \in Formats, k \in 0..MaxInputLen}
           /\ trace[2].kind = "content"
           /\ StartsWith(trace[2].text, <<Head(FromFirstText(Input))>>)
           /\ StartsWith(inner, trace[1].text \o trace[2].text)

C6_Witness ==
    /\ AllOk
    /\ inner # <<>>
    /\ Len(chunks) >= 2
    /\ chunks[1] # <<>>
    /\ WhitespaceOnly(chunks[1])
    /\ Count("\n", chunks[1]) > 0

(***************************************************************************)
(* C7.  Custom line numbers: over the lifetime of a Custom writer the      *)
(* callback receives 0, 1, 2, ... in this order.  (Does not hold of the    *)
(* code: it receives the index of the piece within the current call.)     *)
(***************************************************************************)
C7_CustomLineNumbers ==
    (FormatFixed /\ format.tag = "Custom")
        => \A j \in 1..Len(Prefixes) : Prefixes[j].ind = j - 1

(***************************************************************************)
(* C8.  One prefix invocation per emitted line: with every sink write      *)
(* succeeding, the strategy was invoked once per line of the sink: not at  *)
(* all when nothing was emitted, else once more than there are newlines    *)
(* in the sink, which are the newlines of the input after its first text;  *)
(* absorbed pieces and continuation pieces cause no invocation.            *)
(***************************************************************************)
C8_OnePrefixPerLine ==
    AllOk
        => /\ Len(Prefixes) =
                IF inner = <<>> THEN 0 ELSE 1 + Count("\n", inner)
           /\ Len(Prefixes) =
                IF ~HasText(Input) THEN 0
                ELSE 1 + Count("\n", FromFirstText(Input))

C8_Witness ==
    /\ AllOk
    /\ Len(chunks) >= 2
    /\ Len(Prefixes) >= 2
    /\ Input # <<>> /\ IsBlank(Head(Input))
    /\ \E i \in 2..Len(trace) :
            /\ trace[i].kind = "content" /\ trace[i].ind = 0
            /\ trace[i - 1].call < trace[i].call

(***************************************************************************)
(* C9.  Sink failure propagation: when the sink rejects a write, the       *)
(* write_str call returns Err and makes no further write to the sink.      *)
(***************************************************************************)
C9_FailurePropagation ==
    \A i \in 1..Len(trace) :
        ~trace[i].ok
            => /\ results[trace[i].call] = "Err"
               /\ \A j \in (i + 1)..Len(trace) : trace[j].call > trace[i].call

C9_Witness ==
    \E i \in 1..Len(trace) :
        /\ ~trace[i].ok
        /\ trace[i].kind = "newline"
        /\ Count("\n", chunks[trace[i].call]) >= 2

(***************************************************************************)
(* C10.  Custom callback failure: when the Custom callback returns Err     *)
(* for a line, the write_str call returns Err, the content of that line    *)
(* is not written and no later piece of the chunk is processed.            *)
(***************************************************************************)
C10_CallbackFailure ==
    \A i \in 1..Len(trace) :
        (trace[i].kind = "prefix" /\ trace[i].fmt = "Custom" /\ ~trace[i].ok)
            => /\ results[trace[i].call] = "Err"
               /\ ~ \E j \in 1..Len(trace) :
                        /\ trace[j].call = trace[i].call
                        /\ trace[j].kind = "content"
                        /\ trace[j].ind >= trace[i].ind

C10_Witness ==
    \E i \in 1..Len(trace) :
        /\ trace[i].kind = "prefix" /\ trace[i].fmt = "Custom" /\ ~trace[i].ok
        /\ Count("\n", chunks[trace[i].call]) > trace[i].ind

(***************************************************************************)
(* C11.  started invariant: in every reachable state, also after calls in  *)
(* which a sink write or the callback failed, started is false exactly     *)
(* when no real (non-leading-whitespace) content has reached the sink.     *)
(* (Does not hold of the code: started is set before the first prefix is   *)
(* written, so a failure of that prefix or of the first content leaves     *)
(* started true over a sink without content.)                              *)
(***************************************************************************)
RealContentReached ==
    \E i \in 1..Len(trace) :
        trace[i].kind = "content" /\ trace[i].ok /\ trace[i].text # <<>>

C11_StartedInvariant == (~started) <=> (~RealContentReached)

(***************************************************************************)
(* C12.  Prefix placement.  As claimed: with every sink write succeeding,  *)
(* the writes to the sink are  prefix, content, (newline, prefix,          *)
(* content)*  exactly.                                                     *)
(***************************************************************************)
KindAt(i) ==
    IF i = 1 THEN "prefix"
    ELSE CASE i % 3 = 2 -> "content"
           [] i % 3 = 0 -> "newline"
           [] i % 3 = 1 -> "prefix"

C12_ShapeAsClaimed ==
    AllOk => /\ Len(trace) = 0 \/ Len(trace) % 3 = 2
             /\ \A i \in 1..Len(trace) : trace[i].kind = KindAt(i)

\* C12 as amended: with every sink write succeeding, the writes to the sink
\* are  prefix, content+, (newline, prefix, content+)* : each line has one
\* prefix, written at the very start of the output or directly after the
\* newline that opens the line, and directly before the line's first
\* content; the contents after the first one of a line are the continuation
\* pieces of later calls; the first line's first content starts with text,
\* so no prefix goes to an absorbed line.
C12_PrefixPlacement ==
    (AllOk /\ trace # <<>>)
        => /\ trace[1].kind = "prefix"
           /\ trace[Len(trace)].kind = "content"
           /\ trace[2].text # <<>> /\ ~IsBlank(trace[2].text[1])
           /\ \A i \in 1..Len(trace) :
                /\ (trace[i].kind = "prefix" /\ i > 1)
                        => trace[i - 1].kind = "newline"
                /\ trace[i].kind = "newline" => trace[i + 1].kind = "prefix"
                /\ trace[i].kind = "prefix" => trace[i + 1].kind = "content"
                /\ (trace[i].kind = "content" /\ trace[i - 1].kind = "content")
                        => (trace[i].ind = 0 /\ trace[i - 1].call < trace[i].call)

C12_Witness ==
    /\ AllOk
    /\ Len(Prefixes) >= 2
    /\ Input # <<>> /\ IsBlank(Head(Input))
    /\ \E i \in 2..Len(trace) :
            trace[i].kind = "content" /\ trace[i - 1].kind = "content"

(***************************************************************************)
(* C13.  Continuation pieces: a write_str call that begins with started    *)
(* true writes the first piece of its chunk to the sink first and          *)
(* verbatim: no newline, no prefix, no trimming.  Hence the chunks "ver",  *)
(* "ify\nth", "is" written to a default writer leave what the single chunk *)
(* "verify\nthis" leaves.                                                  *)
(***************************************************************************)
\* the sink after writing the chunks ss, one call each, to a writer in state
\* (st, fmt) over a sink holding snk, with every sink write succeeding
RECURSIVE WriteAll(_, _, _, _)
WriteAll(st, fmt, snk, ss) ==
    IF ss = <<>> THEN snk
    ELSE LET w == write_str_result(st, fmt, snk, <<>>, 1, 0, Head(ss))
         IN  WriteAll(w.started, fmt, w.inner, Tail(ss))

Verify == <<"v", "e", "r", "i", "f", "y", "\n", "t", "h", "i", "s">>

VerifyInThreeChunks ==
    WriteAll(FALSE, DefaultFormat, <<>>,
             <<SubSeq(Verify, 1, 3), SubSeq(Verify, 4, 9), SubSeq(Verify, 10, 11)>>)
        = SingleWrite(DefaultFormat, Verify)

ContinuationStep ==
    (started /\ Len(chunks') = Len(chunks) + 1)
        => LET piece == Split(chunks'[Len(chunks')])[1]
               first == trace'[Len(trace) + 1]
           IN  /\ Len(trace') > Len(trace)
               /\ first.kind = "content"
               /\ first.ind = 0
               /\ first.text = piece
               /\ first.ok => StartsWith(inner', inner \o piece)

C13_Continuation == VerifyInThreeChunks /\ [][ContinuationStep]_vars

C13_Witness ==
    /\ Len(chunks) >= 2
    /\ \E i \in 2..Len(trace) :
            /\ trace[i].kind = "content" /\ trace[i].ind = 0 /\ trace[i].ok
            /\ trace[i - 1].call < trace[i].call
            /\ trace[i].text # <<>> /\ IsWhitespace(trace[i].text[1])

(***************************************************************************)
(* C14.  New-line step ordering after start: in a call whose sink writes   *)
(* all succeed, every piece after the first that is processed with         *)
(* started true causes exactly three consecutive writes to the sink: the   *)
(* newline, the prefix, the untrimmed piece; also when the piece is empty  *)
(* or holds only whitespace.                                               *)
(***************************************************************************)
\* started was true when piece k (from 0) of call c was processed: a prefix
\* had been asked for in an earlier call or for an earlier piece of call c
StartedBefore(c, k) ==
    \E i \in 1..Len(trace) :
        /\ trace[i].kind = "prefix"
        /\ trace[i].call < c \/ (trace[i].call = c /\ trace[i].ind < k)

WritesOf(c, k) == {i \in 1..Len(trace) : trace[i].call = c /\ trace[i].ind = k}

C14_NewLineSteps ==
    \A c \in 1..Len(chunks) :
        results[c] = "Ok" =>
            \A k \in 1..Count("\n", chunks[c]) :
                StartedBefore(c, k) =>
                    \E i \in 1..Len(trace) :
                        /\ WritesOf(c, k) = {i, i + 1, i + 2}
                        /\ trace[i].kind = "newline"
                        /\ trace[i].text = <<"\n">>
                        /\ trace[i + 1].kind = "prefix"
                        /\ trace[i + 2].kind = "content"
                        /\ trace[i + 2].text = Split(chunks[c])[k + 1]

C14_Witness ==
    \E i \in 3..Len(trace) :
        /\ trace[i].kind = "content" /\ trace[i].ind >= 1
        /\ trace[i - 2].kind = "newline"
        /\ results[trace[i].call] = "Ok"
        /\ trace[i].text = <<" ">>

(***************************************************************************)
(* C15.  Single-call line numbering: one write_str call on a fresh writer  *)
(* whose chunk has text in its first piece and k newlines invokes the      *)
(* strategy with the line numbers 0, 1, ..., k in this order, one per      *)
(* piece; the Custom callback of tests::nice_api therefore writes its      *)
(* number on the first line only.                                          *)
(***************************************************************************)
SingleWriteWithText ==
    /\ Len(chunks) = 1
    /\ results = <<"Ok">>
    /\ HasText(Split(chunks[1])[1])

C15_SingleCallNumbering ==
    SingleWriteWithText
        => /\ Len(Prefixes) = Count("\n", chunks[1]) + 1
           /\ \A j \in 1..Len(Prefixes) : Prefixes[j].ind = j - 1
           /\ (FormatFixed /\ format.tag = "Custom")
                => /\ Prefixes[1].text = PadIndex(format.ind) \o <<":", " ">>
                   /\ \A j \in 2..Len(Prefixes) :
                        \A k \in 1..Len(Prefixes[j].text) :
                            Prefixes[j].text[k] = " "

C15_Witness ==
    /\ SingleWriteWithText
    /\ format.tag = "Custom"
    /\ Len(Prefixes) >= 3

(***************************************************************************)
(* C16.  Strategy replacement frame: with_format (and ind) changes only    *)
(* the strategy: it writes nothing to the sink and leaves started alone;   *)
(* on a writer that has started, what was emitted stays as it is and the   *)
(* next prefix written is the one of the new strategy.                     *)
(***************************************************************************)
ReplacementStep ==
    /\ format' # format
            => UNCHANGED <<started, inner, trace, chunks, results>>
    /\ format' = format
            => /\ StartsWith(inner', inner)
               /\ StartsWith(trace', trace)
               /\ \A i \in (Len(trace) + 1)..Len(trace') :
                    trace'[i].kind = "prefix"
                        => /\ trace'[i].fmt = format.tag
                           /\ trace'[i].text = PrefixText(format, trace'[i].ind)

C16_StrategyReplacement == [][ReplacementStep]_vars

C16_Witness ==
    /\ reformats >= 1
    /\ AllOk
    /\ \E i, j \in 1..Len(trace) :
            /\ i < j
            /\ trace[i].kind = "prefix" /\ trace[j].kind = "prefix"
            /\ trace[i].fmt # trace[j].fmt
            /\ trace[i].call < trace[j].call

(***************************************************************************)
(* C17.  Uniform determinism on the concatenation: with a Uniform          *)
(* strategy and a sink that never fails, the sink holds what one write of  *)
(* the concatenation of the chunks to a fresh writer leaves, wherever the  *)
(* chunk boundaries fall: inside leading whitespace, next to a newline,    *)
(* around empty chunks.                                                    *)
(***************************************************************************)
UniformRun == FormatFixed /\ format.tag = "Uniform" /\ AllOk

C17_UniformDeterminism ==
    UniformRun => inner = SingleWrite(format, Input)

C17_Witness ==
    /\ UniformRun
    /\ Len(chunks) >= 3
    /\ chunks[1] # <<>> /\ WhitespaceOnly(chunks[1])
    /\ \E i \in 1..Len(chunks) : chunks[i] = <<>>
    /\ HasText(Input)
    /\ Count("\n", Input) > 0

(***************************************************************************)
(* C18.  Content preservation: with every sink write succeeding, the sink  *)
(* is the concatenation of the writes made to it, and without its          *)
(* prefixes it is the input from its first non-whitespace character on:    *)
(* the newlines of the sink are the newlines of the input after that       *)
(* character and no later whitespace is trimmed.                           *)
(***************************************************************************)
RECURSIVE TextOf(_)
TextOf(entries) ==
    IF entries = <<>> THEN <<>>
    ELSE Head(entries).text \o TextOf(Tail(entries))

WithoutPrefixes == SelectSeq(trace, LAMBDA e : e.kind # "prefix")

C18_ContentPreservation ==
    AllOk => /\ inner = TextOf(trace)
             /\ TextOf(WithoutPrefixes) = FromFirstText(Input)
             /\ Count("\n", inner) = Count("\n", FromFirstText(Input))

C18_Witness ==
    /\ AllOk
    /\ Len(chunks) >= 2
    /\ Input # <<>> /\ IsBlank(Head(Input))
    /\ HasText(Input)
    /\ Input[Len(Input)] = " "

(***************************************************************************)
(* C19.  started is monotonic: no write_str call, with_format call or      *)
(* failure sets started back to false, and started becomes true only in a  *)
(* write_str call whose chunk has a piece with a non-whitespace character. *)
(***************************************************************************)
StartedStep ==
    /\ started => started'
    /\ (~started /\ started')
            => /\ Len(chunks') = Len(chunks) + 1
               /\ \E k \in 1..Len(Split(chunks'[Len(chunks')])) :
                    HasText(Split(chunks'[Len(chunks')])[k])

C19_StartedMonotonic == [][StartedStep]_vars

C19_Witness ==
    /\ started
    /\ reformats >= 1
    /\ Len(chunks) >= 2
    /\ results[1] = "Ok" /\ HasText(chunks[1])
    /\ results[Len(results)] = "Err"

====
